---- MODULE Spec2Model ----
(***************************************************************************)
(* Binary disk spectrum (src/BinaryDiskSpectrum.ipynb).                    *)
(*                                                                         *)
(* The notebook computes with IEEE-754 binary floating point.  The model   *)
(* keeps that arithmetic and reduces its width: a number is a pair         *)
(* <<m, e>> standing for m * 2^e, the significand m has at most Prec bits  *)
(* (53 in the notebook), every operation rounds its exact result to        *)
(* nearest, ties to even, and the exponent range is that of a double       *)
(* (overflow to infinity, gradual underflow through subnormals).           *)
(***************************************************************************)
EXTENDS Integers, Sequences, FiniteSets, TLC

\* Width of the significand, in bits.
Prec == 14

TwoP == 2^Prec
HalfP == 2^(Prec - 1)
\* Exponent of the last place of the largest / smallest normal numbers.
EMaxE == 1024 - Prec
EMinE == (-1021) - Prec
EInf == EMaxE + 1

Max(a, b) == IF a >= b THEN a ELSE b
Min(a, b) == IF a <= b THEN a ELSE b
Abs(a) == IF a < 0 THEN -a ELSE a
Sign(a) == IF a < 0 THEN -1 ELSE 1

Zero == <<0, 0>>
PInf == <<1, EInf>>
NInf == <<-1, EInf>>
NaN == <<0, EInf>>

IsNaN(x) == x = NaN
IsInf(x) == x[2] = EInf /\ x[1] # 0
IsFin(x) == x[2] # EInf
IsZero(x) == x = Zero

\* Number of bits of m, 0 < m < 2^31: n + (bits of m), halving the width.
BitLen1(m, n) == IF m >= 2 THEN n + 2 ELSE n + 1
BitLen2(m, n) == BitLen1(IF m >= 4 THEN m \div 4 ELSE m, IF m >= 4 THEN n + 2 ELSE n)
BitLen4(m, n) == BitLen2(IF m >= 16 THEN m \div 16 ELSE m, IF m >= 16 THEN n + 4 ELSE n)
BitLen8(m, n) == BitLen4(IF m >= 256 THEN m \div 256 ELSE m, IF m >= 256 THEN n + 8 ELSE n)
BitLen(m) == BitLen8(IF m >= 65536 THEN m \div 65536 ELSE m, IF m >= 65536 THEN 16 ELSE 0)

\* A finite value of sign s, or the infinity its exponent overflows to.
Fin(s, m, e) == IF e > EMaxE THEN <<s, EInf>> ELSE <<s * m, e>>

\* s * q * 2^e after rounding: a carry out of the top bit moves the exponent.
PackCarry(s, q, e) ==
  IF q = 0 THEN Zero
  ELSE IF q = TwoP THEN Fin(s, HalfP, e + 1)
  ELSE Fin(s, q, e)

\* Round q + r/(2*half) to nearest, ties to even.
PackRound(s, q, r, half, e) ==
  PackCarry(s, IF r > half \/ (r = half /\ q % 2 = 1) THEN q + 1 ELSE q, e)

\* Drop the sh low bits of m (sh > 0), or shift m up (sh <= 0, exact).
PackShift(s, m, e, st, len, sh) ==
  IF sh <= 0 THEN Fin(s, m * 2^(-sh), e + sh)
  ELSE IF sh > len + 1 THEN Zero
  ELSE PackRound(s, m \div 2^sh, 2 * (m % 2^sh) + st, 2^sh, e + sh)

PackLen(s, m, e, st, len) == PackShift(s, m, e, st, len, Max(len - Prec, EMinE - e))

\* s * (m + st/2) * 2^e, m >= 0, st in {0,1} (st = 1: nonzero bits below m),
\* rounded to nearest, ties to even.
Pack(s, m, e, st) == IF m = 0 THEN Zero ELSE PackLen(s, m, e, st, BitLen(m))

FromInt(n) == Pack(Sign(n), Abs(n), 0, 0)

FNeg(x) == <<-x[1], x[2]>>

FMul(a, b) ==
  IF IsNaN(a) \/ IsNaN(b) THEN NaN
  ELSE IF IsInf(a) \/ IsInf(b)
    THEN IF IsZero(a) \/ IsZero(b) THEN NaN ELSE <<Sign(a[1]) * Sign(b[1]), EInf>>
  ELSE IF IsZero(a) \/ IsZero(b) THEN Zero
  ELSE Pack(Sign(a[1]) * Sign(b[1]), Abs(a[1]) * Abs(b[1]), a[2] + b[2], 0)

AddSum(sum, e) == Pack(Sign(sum), Abs(sum), e, 0)

\* hi + lo for finite nonzero hi, lo with hi[2] >= lo[2].
AddOrd(hi, lo) ==
  IF hi[2] - lo[2] > Prec + 1 THEN hi
  ELSE AddSum(hi[1] * 2^(hi[2] - lo[2]) + lo[1], lo[2])

FAdd(a, b) ==
  IF IsNaN(a) \/ IsNaN(b) THEN NaN
  ELSE IF IsInf(a) THEN (IF IsInf(b) /\ a # b THEN NaN ELSE a)
  ELSE IF IsInf(b) THEN b
  ELSE IF IsZero(a) THEN b
  ELSE IF IsZero(b) THEN a
  ELSE AddOrd(IF a[2] >= b[2] THEN a ELSE b, IF a[2] >= b[2] THEN b ELSE a)

FSub(a, b) == FAdd(a, FNeg(b))

\* The significand of a finite nonzero x shifted up to Prec bits (exact).
NormUp(x, up) == <<Abs(x[1]) * 2^up, x[2] - up>>
NormM(x) == NormUp(x, Prec - BitLen(Abs(x[1])))

DivBits == Prec \div 2 + 2

\* The second digit group of the long division and the sticky bit.
DivLow(s, nb, q1, t2, e) ==
  Pack(s, q1 * 2^DivBits + t2 \div nb, e, IF t2 % nb = 0 THEN 0 ELSE 1)

\* na / nb for Prec-bit significands, by long division in two digit groups.
DivHigh(s, na, nb, t1, e) ==
  DivLow(s, nb, t1 \div nb, (t1 % nb) * 2^DivBits, e)

DivNorm(s, na, nb) ==
  DivHigh(s, na[1], nb[1], na[1] * 2^DivBits, na[2] - nb[2] - 2 * DivBits)

\* IEEE division: x/0 is an infinity, 0/0 and inf/inf are NaN.
FDiv(a, b) ==
  IF IsNaN(a) \/ IsNaN(b) THEN NaN
  ELSE IF IsInf(a) THEN (IF IsInf(b) THEN NaN ELSE <<Sign(a[1]) * Sign(b[1]), EInf>>)
  ELSE IF IsInf(b) THEN Zero
  ELSE IF IsZero(b) THEN (IF IsZero(a) THEN NaN ELSE <<Sign(a[1]), EInf>>)
  ELSE IF IsZero(a) THEN Zero
  ELSE DivNorm(Sign(a[1]) * Sign(b[1]), NormM(a), NormM(b))

\* a < b and a <= b; every comparison with a NaN is false.
FLt(a, b) == ~IsNaN(a) /\ ~IsNaN(b) /\ FSub(a, b)[1] < 0

FLe(a, b) == ~IsNaN(a) /\ ~IsNaN(b) /\ (a = b \/ FLt(a, b))

One == FromInt(1)
Two == FromInt(2)

\* The decimal literal n * 10^k of the source, k >= 0, and n / 10^k.
RECURSIVE Pow10(_)
Pow10(k) == IF k = 0 THEN One ELSE FMul(Pow10(k - 1), FromInt(10))
Lit(n, k) == FMul(FromInt(n), Pow10(k))
LitDiv(n, k) == FDiv(FromInt(n), Pow10(k))

\* Integer power by repeated multiplication, n >= 1.
RECURSIVE FPowInt(_, _)
FPowInt(x, n) == IF n = 1 THEN x ELSE FMul(FPowInt(x, n - 1), x)

\* Largest r in lo..hi with r * r <= n.
RECURSIVE ISqrt(_, _, _)
ISqrt(n, lo, hi) ==
  IF lo = hi THEN lo
  ELSE IF ((lo + hi + 1) \div 2) * ((lo + hi + 1) \div 2) <= n
    THEN ISqrt(n, (lo + hi + 1) \div 2, hi)
  ELSE ISqrt(n, lo, (lo + hi + 1) \div 2 - 1)

SqrtRound(n, r, e) == Pack(1, IF n - r * r > r THEN r + 1 ELSE r, e, 0)
SqrtInt(n, e) == SqrtRound(n, ISqrt(n, HalfP, TwoP - 1), e)
\* The significand is shifted by t bits, t chosen to leave an even exponent.
SqrtEven(nx, t) == SqrtInt(nx[1] * 2^t, (nx[2] - t) \div 2)
SqrtNorm(nx) == SqrtEven(nx, IF (nx[2] - Prec) % 2 = 0 THEN Prec ELSE Prec - 1)

\* numpy.sqrt: correctly rounded; NaN below zero.
FSqrt(x) ==
  IF IsNaN(x) THEN NaN
  ELSE IF IsZero(x) THEN Zero
  ELSE IF x[1] < 0 THEN NaN
  ELSE IF IsInf(x) THEN PInf
  ELSE SqrtNorm(NormM(x))

\* ln 2 and log2 e.
Ln2 == Pack(1, 45426, -16, 0)
Log2E == FDiv(One, Ln2)
Ln2Fix == (45426 * TwoP) \div 65536

\* 1 + t + t^2/2! + ... + t^5/5! in fixed point, scaled by 2^Prec.
ExpSeries(t, t2, t3, t4, t5) ==
  TwoP + t + t2 \div 2 + t3 \div 6 + t4 \div 24 + t5 \div 120
ExpT4(t, t2, t3, t4) == ExpSeries(t, t2, t3, t4, (t4 * t) \div TwoP)
ExpT3(t, t2, t3) == ExpT4(t, t2, t3, (t3 * t) \div TwoP)
ExpT2(t, t2) == ExpT3(t, t2, (t2 * t) \div TwoP)
ExpT(t) == ExpT2(t, (t * t) \div TwoP)
\* 2^(q / 2^Prec) * 2^Prec for 0 <= q < 2^Prec, in fixed point.
Exp2Fix(q) == ExpT((q * Ln2Fix) \div TwoP)

\* 2^y for y = y[1] * 2^(-sh): integer part to the exponent, fraction to Exp2Fix.
ExpSplit(x, y, sh) ==
  IF sh <= 0 THEN Pack(1, 1, y[1] * 2^(-sh), 0)
  ELSE IF sh > 2 * Prec THEN FAdd(One, x)
  ELSE Pack(1, Exp2Fix(((y[1] % 2^sh) * TwoP) \div 2^sh), y[1] \div 2^sh - Prec, 0)

ExpBase2(x, y) == ExpSplit(x, y, -y[2])

\* numpy.exp: overflows to infinity, underflows to zero.
FExp(x) ==
  IF IsNaN(x) THEN NaN
  ELSE IF IsInf(x) THEN (IF x[1] > 0 THEN PInf ELSE Zero)
  ELSE IF IsZero(x) THEN One
  ELSE IF x[2] + BitLen(Abs(x[1])) > 11 THEN (IF x[1] > 0 THEN PInf ELSE Zero)
  ELSE ExpBase2(x, FMul(x, Log2E))

\* 2 * atanh series z + z^3/3 + ... + z^9/9 in fixed point.
LnSeries(z, z3, z5, z7, z9) == 2 * (z + z3 \div 3 + z5 \div 5 + z7 \div 7 + z9 \div 9)
LnZ7(z, z2, z3, z5, z7) == LnSeries(z, z3, z5, z7, (z7 * z2) \div TwoP)
LnZ5(z, z2, z3, z5) == LnZ7(z, z2, z3, z5, (z5 * z2) \div TwoP)
LnZ3(z, z2, z3) == LnZ5(z, z2, z3, (z3 * z2) \div TwoP)
LnZ2(z, z2) == LnZ3(z, z2, (z2 * z) \div TwoP)
LnZ(z) == LnZ2(z, (z * z) \div TwoP)
\* ln(m / 2^(Prec-1)) * 2^Prec for a Prec-bit significand m, in fixed point.
LnFix(m) == LnZ(((m - HalfP) * TwoP) \div (m + HalfP))

LogNorm(nx) ==
  FAdd(FMul(FromInt(nx[2] + Prec - 1), Ln2), Pack(1, LnFix(nx[1]), -Prec, 0))

\* numpy.log: -infinity at zero, NaN below zero.
FLog(x) ==
  IF IsNaN(x) THEN NaN
  ELSE IF IsZero(x) THEN NInf
  ELSE IF x[1] < 0 THEN NaN
  ELSE IF IsInf(x) THEN PInf
  ELSE LogNorm(NormM(x))

\* x ** y for x > 0 (the real power).
FPow(x, y) ==
  IF IsNaN(x) \/ IsNaN(y) THEN NaN
  ELSE IF IsZero(y) THEN One
  ELSE FExp(FMul(y, FLog(x)))
(***************************************************************************)
(* The constants of the notebook, cgs units.                               *)
(***************************************************************************)
G == LitDiv(667, 10)
Msun == Lit(2, 33)
sb == LitDiv(567, 7)
c == Lit(3, 10)
h == LitDiv(6626, 30)
k == LitDiv(138, 18)
year == Lit(315, 5)
tsal == FMul(Lit(5, 7), year)
pi == LitDiv(314159, 5)

Mdot_acc(M, edd_frac) == FDiv(FMul(edd_frac, M), tsal)

Risco(M) == FDiv(FMul(FMul(FromInt(12), G), M), FPowInt(c, 2))

HillR(q) ==
  LET q23 == FPow(q, FDiv(Two, FromInt(3)))
      q13 == FPow(q, FDiv(One, FromInt(3)))
  IN FDiv(FMul(LitDiv(49, 2), q23),
          FAdd(FMul(LitDiv(6, 1), q23), FLog(FAdd(One, q13))))

\* The divisor of Tstar; a Python float division by zero raises.
TstarDen(R0) == FMul(FMul(FMul(FromInt(8), pi), FPowInt(R0, 3)), sb)

Tstar(R0, M, Mdot) ==
  FPow(FDiv(FMul(FMul(FMul(FromInt(3), G), M), Mdot), TstarDen(R0)), LitDiv(25, 2))

disk_temperature(R, R0, M, Mdot) ==
  FMul(Tstar(R0, M, Mdot),
       FPow(FMul(FPowInt(FDiv(R0, R), 3), FSub(One, FSqrt(FDiv(R0, R)))),
            LitDiv(25, 2)))

\* planck_spectrum(T, nu) for the array nu: one value per entry of nu.
planck_spectrum(T, nu) ==
  LET h2 == FMul(Two, h)
      c2 == FPowInt(c, 2)
      kT == FMul(k, T)
  IN [i \in DOMAIN nu |->
        FDiv(FDiv(FMul(h2, FPowInt(nu[i], 3)), c2),
             FSub(FExp(FDiv(FMul(h, nu[i]), kT)), One))]

\* numpy.logspace(start, stop, num): 10 ** (start + i * step), i = 0..num-1.
logspace(start, stop, num) ==
  LET step == FDiv(FSub(stop, start), FromInt(num - 1))
  IN [i \in 1..num |->
        IF i = num THEN FPow(FromInt(10), stop)
        ELSE FPow(FromInt(10), FAdd(FMul(FromInt(i - 1), step), start))]

\* The number of grid edges, logspace(12, 19, 999).
NumEdges == 999
nu_v_grid == logspace(FromInt(12), FromInt(19), NumEdges) \o <<>>

\* Variant of centres: the two slices left out, 0.5 * (v + v).
centresUnsliced(v) == [i \in DOMAIN v |-> FMul(LitDiv(5, 1), FAdd(v[i], v[i]))]

\* 0.5 * (v[1:] + v[:-1])
centres(v) ==
  LET upper == Tail(v)
      lower == SubSeq(v, 1, Len(v) - 1)
      half == LitDiv(5, 1)
  IN [i \in DOMAIN upper |-> FMul(half, FAdd(upper[i], lower[i]))]
nu_c_grid == centres(nu_v_grid) \o <<>>

(***************************************************************************)
(* The program state.  pc is the position of the interpreter, ds the frame *)
(* of disk_spectrum and ps the frame of plot_spectrum (fields named after  *)
(* the locals), out what the running top-level call has printed, and hist  *)
(* the radii at which the running disk_spectrum call has called            *)
(* disk_temperature (a history variable, kept up to MaxAnnuli entries), and *)
(* runs the number of calls of plot_spectrum that interact has made in a  *)
(* row (a history variable, counted up to MaxRuns).                        *)
(***************************************************************************)
VARIABLES pc, ds, ps, out, hist, runs

vars == <<pc, ds, ps, out, hist, runs>>

MaxAnnuli == 16
MaxRuns == 2

NoDs == [M |-> Zero, Mdot |-> Zero, R0 |-> Zero, Rout |-> Zero, delta |-> Zero,
         np |-> FALSE, nu_v |-> <<>>, nu_c |-> <<>>, R |-> Zero, R1 |-> Zero,
         Inu |-> <<>>]

WarningText == "Warning: Rout < R1, the spectrum is zero"

\* Variant of zeros_like as used for the accumulator: the array of the
\* previous call is taken up again instead of a new one.
zeros_like_kept(a) == IF Len(ds.Inu) = Len(a) THEN ds.Inu ELSE [i \in DOMAIN a |-> Zero]

\* Inu = zeros_like(nu_c): a new array of zeros.
zeros_like(a) == [i \in DOMAIN a |-> Zero]

\* Variant of StartRadius: the offset factor written 0.0001.
StartRadiusSlip(R0) == FMul(R0, LitDiv(1, 4))

\* R = R0 * 1.0001
StartRadius(R0) == FMul(R0, LitDiv(10001, 4))

\* disk_spectrum down to the head of its loop.  np tells that R0 is a numpy
\* scalar (its arithmetic returns inf or nan where a Python float raises).
Enter(M, Mdot, R0, Rout, delta, np) ==
  [M |-> M, Mdot |-> Mdot, R0 |-> R0, Rout |-> Rout, delta |-> delta, np |-> np,
   nu_v |-> nu_v_grid,
   nu_c |-> nu_c_grid,
   R |-> StartRadius(R0),
   R1 |-> Rout,
   Inu |-> zeros_like(nu_c_grid)]

\* if Rout < R0: print(...)
Warning(R0, Rout) == IF FLt(Rout, R0) THEN <<WarningText>> ELSE <<>>

\* Variant of LoopCond: the comparison written <=.
LoopCondLe(f) == FLe(f.R, f.Rout)

\* while R < Rout
LoopCond(f) == FLt(f.R, f.Rout)

\* 2 * pi * R * dR * planck_spectrum(disk_temperature(R, R0, M, Mdot), nu_c)
Annulus(f) ==
  LET dR == FMul(f.R, f.delta)
      w == FMul(FMul(FMul(Two, pi), f.R), dR)
      B == planck_spectrum(disk_temperature(f.R, f.R0, f.M, f.Mdot), f.nu_c)
  IN [i \in DOMAIN B |-> FMul(w, B[i])]

\* R *= 1.0 + delta
Advance(R, delta) == FMul(R, FAdd(One, delta))

\* Inu += ...
Accumulate(Inu, A) == [i \in DOMAIN Inu |-> FAdd(Inu[i], A[i])]

\* One pass of the loop body on frame f.
Body(f) == [f EXCEPT !.Inu = Accumulate(f.Inu, Annulus(f)), !.R = Advance(f.R, f.delta)]

\* Tstar divides by 8*pi*R0**3*sb and disk_temperature by R: a Python float
\* division by zero raises ZeroDivisionError.
BodyRaises(f) == ~f.np /\ (IsZero(TstarDen(f.R0)) \/ IsZero(f.R))

(***************************************************************************)
(* Calls of disk_spectrum from the top level.                              *)
(***************************************************************************)
Mb == FMul(Lit(1, 7), Msun)
Rb == Risco(Mb)
Ms == FMul(Lit(1, 4), Msun)
Rs == Risco(Ms)
MinSub == <<1, EMinE>>

\* The arguments <<M, Mdot, R0, Rout, delta>> of the calls, Python floats.
DiskInputs ==
  {<<Mb, Mdot_acc(Mb, One), Rb, rout, dl>> :
      rout \in {Lit(1, 13), Rb, StartRadius(Rb), Lit(3, 13), FNeg(Rb), Zero},
      dl \in {Zero, LitDiv(1, 1), LitDiv(5, 1), One}}
  \cup {<<Mb, Mdot_acc(Mb, One), Rb, Advance(StartRadius(Rb), LitDiv(1, 3)), LitDiv(1, 3)>>,
        <<Mb, Mdot_acc(Mb, One), Rb, FMul(Rb, LitDiv(1003, 3)), LitDiv(1, 3)>>,
        <<Ms, Mdot_acc(Ms, One), Rs, FMul(Rs, Lit(5, 0)), LitDiv(5, 1)>>,
        <<Ms, Mdot_acc(Ms, One), Rs, FMul(Rs, Lit(2, 2)), One>>,
        <<Ms, Mdot_acc(Ms, One), Rs, FMul(Rs, Lit(3, 1)), LitDiv(5, 1)>>,
        <<Ms, Mdot_acc(Ms, One), Rs, FMul(Rs, LitDiv(5, 1)), LitDiv(1, 1)>>,
        <<Mb, Mdot_acc(Mb, One), MinSub, <<3, EMinE>>, One>>,
        <<Mb, Mdot_acc(Mb, One), <<3, EMinE>>, MinSub, One>>}

(***************************************************************************)
(* plot_spectrum(M, q, pref_acc, Notm).                                    *)
(***************************************************************************)
\* Variant of M1: the mass ratio alone as the divisor.
M1ByRatio(M, q) == FDiv(M, q)

\* M1 = M / (1 + q)
M1(M, q) == FDiv(M, FAdd(One, q))

\* M2 = M1 * q
M2(m1, q) == FMul(m1, q)

\* eta = q / (1 + q) ** 2
eta(q) == FDiv(q, FPowInt(FAdd(One, q), 2))

\* edd_frac_1 = (1 + q) / (1 + pref_acc)
edd_frac_1(q, pref_acc) == FDiv(FAdd(One, q), FAdd(One, pref_acc))

\* Variant of edd_frac_2: the division by q left out.
edd_frac_2_undivided(pref_acc, ef1, q) == FMul(pref_acc, ef1)

\* edd_frac_2 = pref_acc * edd_frac_1 / q
edd_frac_2(pref_acc, ef1, q) == FDiv(FMul(pref_acc, ef1), q)

\* 128 * pi * eta * 4 * Notm, the divisor in a0.
a0Den(et, Notm) == FMul(FMul(FMul(FMul(FromInt(128), pi), et), FromInt(4)), Notm)

\* a0 = G * M / c**2 * (5 / (128 * pi * eta * 4 * Notm)) ** (-2 / 5)
a0(M, et, Notm) ==
  FMul(FDiv(FMul(G, M), FPowInt(c, 2)),
       FPow(FDiv(FromInt(5), a0Den(et, Notm)), FDiv(FromInt(-2), FromInt(5))))

\* The float divisions of lines 153-162 by a zero: ZeroDivisionError.
DeriveRaises(M, q, pref_acc, Notm) ==
  \/ IsZero(FAdd(One, q))
  \/ IsZero(FPowInt(FAdd(One, q), 2))
  \/ IsZero(FAdd(One, pref_acc))
  \/ IsZero(q)
  \/ IsZero(a0Den(eta(q), Notm))
  \/ IsZero(FDiv(FromInt(5), a0Den(eta(q), Notm)))

\* The step fraction and the outer edge of the circumbinary disk that
\* plot_spectrum passes (delta=0.001 and 1e6 * a0 in the notebook), taken
\* coarser here: PlotDeltaMilli / 1000 and OuterFactor * a0.
PlotDeltaMilli == 500
OuterFactor == 4
PlotDelta == LitDiv(PlotDeltaMilli, 3)

\* The locals of plot_spectrum before the first call of disk_spectrum.
NoPs ==
  [call |-> 0, arg |-> <<>>, M |-> Zero, M1 |-> Zero, M2 |-> Zero, eta |-> Zero,
   edd_frac_1 |-> Zero, edd_frac_2 |-> Zero, Mdot1 |-> Zero, Mdot2 |-> Zero,
   Mdot |-> Zero, a0 |-> Zero, nu_v |-> <<>>, Inu1 |-> <<>>, Inu2 |-> <<>>,
   Inu3 |-> <<>>, nu |-> <<>>, Lnu1 |-> <<>>, Lnu2 |-> <<>>, Lnu3 |-> <<>>,
   Lnutot |-> <<>>]

\* Lines 153-162.
Derive(M, q, pref_acc, Notm) ==
  LET Mg == FMul(M, Msun)
      m1 == M1(Mg, q)
      m2 == M2(m1, q)
      ef1 == edd_frac_1(q, pref_acc)
      ef2 == edd_frac_2(pref_acc, ef1, q)
  IN [NoPs EXCEPT !.arg = <<M, q, pref_acc, Notm>>,
                  !.M = Mg, !.M1 = m1, !.M2 = m2, !.eta = eta(q),
                  !.edd_frac_1 = ef1, !.edd_frac_2 = ef2,
                  !.Mdot1 = Mdot_acc(m1, ef1), !.Mdot2 = Mdot_acc(m2, ef2),
                  !.Mdot = Mdot_acc(Mg, One),
                  !.a0 = a0(Mg, eta(q), Notm)]

\* The frame of the n-th call of disk_spectrum, lines 163-165.
DiskCall(f, n) ==
  LET hill == FMul(HillR(f.arg[2]), f.a0)
  IN IF n = 1 THEN Enter(f.M1, f.Mdot1, Risco(f.M1), FSub(f.a0, hill), PlotDelta, FALSE)
     ELSE IF n = 2 THEN Enter(f.M2, f.Mdot2, Risco(f.M2), hill, PlotDelta, FALSE)
     ELSE Enter(f.M, f.Mdot, FAdd(f.a0, hill), FMul(FromInt(OuterFactor), f.a0),
                PlotDelta, TRUE)

\* Lnu = pi * Inu * nu
Luminosity(Inu, nu) == [i \in DOMAIN Inu |-> FMul(FMul(pi, Inu[i]), nu[i])]

\* Variant of Total: the outer disk left out of the sum.
TotalOfTwo(L1, L2, L3) == [i \in DOMAIN L1 |-> FAdd(L1[i], L2[i])]

\* Lnutot = Lnu1 + Lnu2 + Lnu3
Total(L1, L2, L3) == [i \in DOMAIN L1 |-> FAdd(FAdd(L1[i], L2[i]), L3[i])]

\* Lines 166-170 on a frame that holds the three intensities.
Compose(f) ==
  LET nu == centres(f.nu_v)
      L1 == Luminosity(f.Inu1, nu)
      L2 == Luminosity(f.Inu2, nu)
      L3 == Luminosity(f.Inu3, nu)
  IN [f EXCEPT !.nu = nu, !.Lnu1 = L1, !.Lnu2 = L2, !.Lnu3 = L3,
               !.Lnutot = Total(L1, L2, L3)]

\* The slider values <<M, q, pref_acc, Notm>> and values outside the domain.
PlotInputs ==
  {<<Lit(1, 7), LitDiv(1, 2), Lit(10, 0), Lit(1, 4)>>,
   <<Lit(1, 7), One, One, One>>,
   <<Lit(1, 4), LitDiv(5, 1), LitDiv(55, 1), Lit(1, 2)>>,
   <<Lit(1, 8), LitDiv(1, 3), One, Lit(1, 4)>>,
   <<Lit(3, 6), LitDiv(25, 2), Lit(3, 0), Lit(30, 0)>>,
   <<Lit(5, 5), LitDiv(1, 1), Lit(2, 0), Lit(1, 3)>>,
   <<Zero, LitDiv(1, 2), Lit(10, 0), Lit(1, 4)>>,
   <<FNeg(Lit(1, 7)), LitDiv(1, 2), Lit(10, 0), Lit(1, 4)>>,
   <<Lit(1, 7), Zero, Lit(10, 0), Lit(1, 4)>>,
   <<Lit(1, 7), LitDiv(1, 2), Lit(10, 0), Zero>>}

Rest == {"idle", "returned", "raised", "done"}

Init ==
  /\ pc = "idle"
  /\ ds = NoDs
  /\ ps = NoPs
  /\ out = <<>>
  /\ hist = <<>>
  /\ runs = 0

\* A call disk_spectrum(M, Mdot, R0, Rout, delta) from the top level, down to
\* the head of the loop.
CallDirect ==
  /\ pc \in Rest
  /\ \E a \in DiskInputs :
       /\ ds' = Enter(a[1], a[2], a[3], a[4], a[5], FALSE)
       /\ out' = Warning(a[3], a[4])
  /\ hist' = <<>>
  /\ pc' = "loop"
  /\ ps' = NoPs
  /\ runs' = 0

\* while R < Rout: one pass of the body, or an exception out of it.
LoopStep ==
  /\ pc = "loop"
  /\ LoopCond(ds)
  /\ hist' = IF Len(hist) < MaxAnnuli THEN Append(hist, ds.R) ELSE hist
  /\ IF BodyRaises(ds)
       THEN pc' = "raised" /\ ds' = ds
       ELSE pc' = "loop" /\ ds' = Body(ds)
  /\ UNCHANGED <<ps, out, runs>>

\* return nu_v, Inu to the top level: ds keeps the returned pair.
ReturnDirect ==
  /\ pc = "loop"
  /\ ~LoopCond(ds)
  /\ ps.call = 0
  /\ pc' = "returned"
  /\ UNCHANGED <<ds, ps, out, hist, runs>>

\* interact calls plot_spectrum with the slider values: lines 153-163, as far
\* as ZeroDivisionError or the loop of the first disk_spectrum.
Invoke ==
  /\ pc \in Rest
  /\ hist' = <<>>
  /\ runs' = IF runs < MaxRuns THEN runs + 1 ELSE runs
  /\ \E a \in PlotInputs :
       IF DeriveRaises(a[1], a[2], a[3], a[4])
         THEN /\ pc' = "raised"
              /\ ps' = [NoPs EXCEPT !.arg = a]
              /\ ds' = ds
              /\ out' = <<>>
         ELSE /\ pc' = "loop"
              /\ ps' = [Derive(a[1], a[2], a[3], a[4]) EXCEPT !.call = 1]
              /\ ds' = DiskCall(ps', 1)
              /\ out' = Warning(ds'.R0, ds'.Rout)

\* return nu_v, Inu to plot_spectrum, which goes on to its next call of
\* disk_spectrum (lines 164, 165).
ReturnToPlot ==
  /\ pc = "loop"
  /\ ~LoopCond(ds)
  /\ ps.call \in {1, 2}
  /\ ps' = IF ps.call = 1
             THEN [ps EXCEPT !.call = 2, !.nu_v = ds.nu_v, !.Inu1 = ds.Inu]
             ELSE [ps EXCEPT !.call = 3, !.nu_v = ds.nu_v, !.Inu2 = ds.Inu]
  /\ ds' = DiskCall(ps', ps'.call)
  /\ out' = out \o Warning(ds'.R0, ds'.Rout)
  /\ hist' = <<>>
  /\ pc' = "loop"
  /\ UNCHANGED runs

\* The third return, and lines 166-186: the luminosities, and the plot.
ReturnAndPlot ==
  /\ pc = "loop"
  /\ ~LoopCond(ds)
  /\ ps.call = 3
  /\ ps' = Compose([ps EXCEPT !.call = 0, !.nu_v = ds.nu_v, !.Inu3 = ds.Inu])
  /\ pc' = "done"
  /\ UNCHANGED <<ds, out, hist, runs>>

Next == CallDirect \/ LoopStep \/ ReturnDirect

Spec == Init /\ [][Next]_vars

NextPlot == Invoke \/ LoopStep \/ ReturnToPlot \/ ReturnAndPlot

PlotSpec == Init /\ [][NextPlot]_vars

\* Both kinds of call.
NextAll == CallDirect \/ Invoke \/ LoopStep \/ ReturnDirect \/ ReturnToPlot \/ ReturnAndPlot

AllSpec == Init /\ [][NextAll]_vars

(***************************************************************************)
(* Lines 153-161 of plot_spectrum on their own, over a grid of arguments.  *)
(***************************************************************************)
DeriveInputs ==
  {<<m, q, p, Lit(1, 4)>> :
      m \in {Lit(1, 4), Lit(3, 4), Lit(1, 7), Lit(777, 5), Lit(1, 8), FNeg(Lit(1, 7)), Zero},
      q \in {LitDiv(1, 3), LitDiv(1, 2), LitDiv(3, 1), LitDiv(5, 1), LitDiv(999, 3), One},
      p \in {One, LitDiv(11, 1), LitDiv(33, 1), Lit(10, 0)}}

InitDerive ==
  /\ pc = "idle"
  /\ ds = NoDs
  /\ ps \in {[NoPs EXCEPT !.arg = a] : a \in DeriveInputs}
  /\ out = <<>>
  /\ hist = <<>>
  /\ runs = 0

DeriveStep ==
  /\ pc = "idle"
  /\ ~DeriveRaises(ps.arg[1], ps.arg[2], ps.arg[3], ps.arg[4])
  /\ ps' = Derive(ps.arg[1], ps.arg[2], ps.arg[3], ps.arg[4])
  /\ pc' = "derived"
  /\ UNCHANGED <<ds, out, hist, runs>>

DeriveSpec == InitDerive /\ [][DeriveStep]_vars

(***************************************************************************)
(* Properties of disk_spectrum.                                            *)
(***************************************************************************)
Positive(x) == FLt(Zero, x)

\* C1: a call with R0 > 0 and Rout < R0 never runs the loop body and raises
\* nothing; the intensities are 998 zeros and the warning is all it prints.
C1_ZeroDisk ==
  (pc \in {"loop", "returned", "raised"} /\ ps.call = 0
      /\ Positive(ds.R0) /\ FLt(ds.Rout, ds.R0))
    => /\ pc # "raised"
       /\ ~LoopCond(ds)
       /\ hist = <<>>
       /\ Len(ds.Inu) = 998
       /\ \A i \in DOMAIN ds.Inu : ds.Inu[i] = Zero
       /\ out = <<WarningText>>

C1_Witness ==
  /\ pc = "returned"
  /\ Positive(ds.R0) /\ Positive(ds.Rout) /\ FLt(ds.Rout, ds.R0)
  /\ Positive(ds.delta)

\* C7: with R0 > 0 and delta >= 0, every radius at which the loop calls
\* disk_temperature is strictly greater than R0.
C7_RadiusAboveR0 ==
  (Positive(ds.R0) /\ FLe(Zero, ds.delta))
    => \A i \in DOMAIN hist : FLt(ds.R0, hist[i])

\* C8: a call with R0 > 0 and a finite Rout, whatever delta, leaves the loop
\* and returns.  The loop decides on R alone and moves R by R and delta
\* alone: a pass that ends at the loop with R where it was is repeated for
\* ever, so a loop that terminates has no such pass.
C8_Terminates ==
  [][(pc = "loop" /\ pc' = "loop" /\ ps.call = 0 /\ ps'.call = 0 /\ ds'.R0 = ds.R0
        /\ Positive(ds.R0) /\ IsFin(ds.Rout) /\ LoopCond(ds))
      => ds'.R # ds.R]_vars

\* R_k = 1.0001 * R0 * (1 + delta)^k, multiplied out in the order of the loop.
RECURSIVE RadiusAt(_, _, _)
RadiusAt(R0, delta, n) ==
  IF n = 0 THEN FMul(R0, LitDiv(10001, 4))
  ELSE FMul(RadiusAt(R0, delta, n - 1), FAdd(One, delta))

\* 2*pi*R_k*(R_k*delta)*planck(T(R_k)) for every bin.
Contribution(f, Rk) ==
  LET B == planck_spectrum(disk_temperature(Rk, f.R0, f.M, f.Mdot), f.nu_c)
      w == FMul(FMul(FMul(Two, pi), Rk), FMul(Rk, f.delta))
  IN [i \in DOMAIN B |-> FMul(w, B[i])]

\* The sum of the contributions of R_0 .. R_(n-1), from zero, in that order.
RECURSIVE SumOfAnnuli(_, _)
SumOfAnnuli(f, n) ==
  IF n = 0 THEN [i \in DOMAIN f.nu_c |-> Zero]
  ELSE LET before == SumOfAnnuli(f, n - 1)
           A == Contribution(f, RadiusAt(f.R0, f.delta, n - 1))
       IN [i \in DOMAIN before |-> FAdd(before[i], A[i])]

FEq(a, b) == ~IsNaN(a) /\ ~IsNaN(b) /\ a = b

AllZero(s) == \A i \in DOMAIN s : s[i] = Zero

StrictlyIncreasing(v) == \A i \in 1..(Len(v) - 1) : FLt(v[i], v[i + 1])

\* C3: whatever its arguments, disk_spectrum hands back 999 strictly
\* increasing bin edges and 998 intensities; in plot_spectrum the three
\* intensity sequences, the three luminosities and the total have 998
\* entries, one for each bin centre 0.5 * (nu_v[i+1] + nu_v[i]).
C3_Shapes ==
  /\ pc \in {"loop", "returned"} =>
       /\ Len(ds.nu_v) = 999
       /\ StrictlyIncreasing(ds.nu_v)
       /\ Len(ds.nu_c) = 998
       /\ Len(ds.Inu) = 998
  /\ pc = "done" =>
       /\ Len(ps.nu_v) = 999
       /\ \A s \in {ps.Inu1, ps.Inu2, ps.Inu3, ps.Lnu1, ps.Lnu2, ps.Lnu3,
                    ps.Lnutot, ps.nu} : Len(s) = 998
       /\ \A i \in 1..998 :
            FEq(ps.nu[i], FMul(LitDiv(5, 1), FAdd(ps.nu_v[i + 1], ps.nu_v[i])))

C3_Witness ==
  /\ pc = "done"
  /\ Len(ps.Lnutot) = 998
  /\ Len(out) = 2
  /\ ~AllZero(ps.Lnutot)

\* The arguments the interface's domain excludes.
OutOfDomain(a) == FLe(a[1], Zero) \/ FLe(a[2], Zero) \/ FLe(a[4], Zero)

\* C4: called with M <= 0, q <= 0 or Notm <= 0, plot_spectrum raises before
\* any disk spectrum is integrated.
C4_FailsFast ==
  (pc # "idle" /\ ps.arg # <<>> /\ OutOfDomain(ps.arg))
    => (pc = "raised" /\ ps.call = 0)

\* disk_spectrum from its entry to its return, in one piece.
RECURSIVE Integrate(_)
Integrate(f) == IF LoopCond(f) THEN Integrate(Body(f)) ELSE f

\* The three spectra a call with arguments a makes on its own.
Alone(f0) ==
  [f0 EXCEPT !.nu_v = Integrate(DiskCall(f0, 3)).nu_v,
             !.Inu1 = Integrate(DiskCall(f0, 1)).Inu,
             !.Inu2 = Integrate(DiskCall(f0, 2)).Inu,
             !.Inu3 = Integrate(DiskCall(f0, 3)).Inu]

\* C9: what an invocation of plot_spectrum leaves, its spectra and its
\* luminosities, is what its own four arguments give on their own, whatever
\* was invoked before it.
C9_Independent ==
  (pc = "done" /\ runs >= 2)
    => ps = Compose(Alone(Derive(ps.arg[1], ps.arg[2], ps.arg[3], ps.arg[4])))

C9_Witness ==
  /\ pc = "done"
  /\ runs >= 2
  /\ ~AllZero(ps.Inu1) /\ ~AllZero(ps.Inu2) /\ ~AllZero(ps.Inu3)

(***************************************************************************)
(* Properties of the masses and accretion rates that plot_spectrum derives. *)
(***************************************************************************)
\* A finite float with a full significand: neither zero nor subnormal.
Normal(x) == IsFin(x) /\ Abs(x[1]) >= HalfP

\* |a - b| is at most n units in the last place of b.
Close(a, b, n) ==
  /\ Normal(a) /\ Normal(b)
  /\ Abs(a[2] - b[2]) <= 1
  /\ Abs(a[1] * 2^(a[2] - Min(a[2], b[2])) - b[1] * 2^(b[2] - Min(a[2], b[2])))
       <= n * 2^(b[2] - Min(a[2], b[2]))

\* The arguments C5 and C6 speak of: M > 0, 0 < q <= 1, pref_acc >= 1.
InDomain(a) ==
  /\ Positive(a[1])
  /\ Positive(a[2]) /\ FLe(a[2], One)
  /\ FLe(One, a[3])

\* No result of lines 153-161 left the range of normal floats.
InRange(f) ==
  \A x \in {f.M, f.M1, f.M2, f.edd_frac_1, f.edd_frac_2, f.Mdot1, f.Mdot2, f.Mdot,
            FAdd(One, f.arg[2]), FAdd(One, f.arg[3]),
            FMul(f.arg[3], f.edd_frac_1), FMul(f.edd_frac_1, f.M1),
            FMul(f.edd_frac_2, f.M2), FMul(f.arg[3], f.Mdot1),
            FAdd(f.Mdot1, f.Mdot2)} : Normal(x)

\* C5 as the claim has it: for M > 0, 0 < q <= 1 and p >= 1,
\* Mdot1 + Mdot2 equals Mdot_acc(M, 1.0) and Mdot2 equals p * Mdot1.
C5_RatesExact ==
  (pc = "derived" /\ InDomain(ps.arg))
    => /\ FEq(FAdd(ps.Mdot1, ps.Mdot2), Mdot_acc(ps.M, One))
       /\ FEq(ps.Mdot2, FMul(ps.arg[3], ps.Mdot1))

\* C5, amended: for M > 0, 0 < q <= 1 and p >= 1 with every intermediate a
\* normal float, Mdot1 + Mdot2 is within 16 units in the last place of
\* Mdot_acc(M, 1.0), and Mdot2 within 16 of p * Mdot1.
C5_RatesClose ==
  (pc = "derived" /\ InDomain(ps.arg) /\ InRange(ps))
    => /\ Close(FAdd(ps.Mdot1, ps.Mdot2), Mdot_acc(ps.M, One), 16)
       /\ Close(ps.Mdot2, FMul(ps.arg[3], ps.Mdot1), 16)

C5_Witness ==
  /\ pc = "derived" /\ InDomain(ps.arg) /\ InRange(ps)
  /\ ~FEq(FAdd(ps.Mdot1, ps.Mdot2), ps.Mdot)
  /\ ~FEq(ps.Mdot2, FMul(ps.arg[3], ps.Mdot1))
  /\ FLt(ps.arg[2], One) /\ FLt(One, ps.arg[3])

\* C6 as the claim has it: for every M and every q > 0, M1 + M2 equals M
\* and M2 equals q * M1.
C6_MassesExact ==
  (pc = "derived" /\ Positive(ps.arg[2]))
    => /\ FEq(FAdd(ps.M1, ps.M2), ps.M)
       /\ FEq(ps.M2, FMul(ps.arg[2], ps.M1))

MassesInRange(f) == \A x \in {f.M, f.M1, f.M2, FAdd(f.M1, f.M2)} : Normal(x)

\* C6, amended: for every q > 0 and every M with M, M1, M2 and M1 + M2 normal
\* floats, M1 + M2 is within 4 units in the last place of M, and M2 equals
\* q * M1.
C6_MassesClose ==
  (pc = "derived" /\ Positive(ps.arg[2]) /\ MassesInRange(ps))
    => /\ Close(FAdd(ps.M1, ps.M2), ps.M, 4)
       /\ FEq(ps.M2, FMul(ps.arg[2], ps.M1))

C6_Witness ==
  /\ pc = "derived" /\ Positive(ps.arg[2]) /\ MassesInRange(ps)
  /\ ~FEq(FAdd(ps.M1, ps.M2), ps.M)

====
